---- MODULE Spec2Model ----
(***************************************************************************)
(* Marauder visualizer: the synchronization loop of Visualizer (tick =     *)
(* handle_events; logic; pick_tile; draw) and the SelectionManager.        *)
(*                                                                         *)
(* The simulation (core), the game-state mirror, the pathfinder, the tile  *)
(* picker, the geometry and the event visualizers are collaborators of the *)
(* loop; they are modelled from their contracts (spec sections 3, 4.1,     *)
(* 4.3 and 6).                                                             *)
(***************************************************************************)
EXTENDS Integers, Sequences, FiniteSets, TLC

\* ------------------------------------------------------------- bounds
NumTiles == 2        \* tiles of the map, numbered 0..NumTiles-1 (one row)
MaxUnits == 2        \* unit ids the simulation can hand out
MaxQueue == 2        \* events the simulation holds undelivered
FramesPerStep == 2   \* draw calls per interpolated animation step
MaxWinSize == 2      \* largest window width and height, and pointer coordinate
MaxGlObjects == 2    \* GPU objects (Vao, Vbo) alive at once
MaxGlCalls == 3      \* GPU calls followed in one run

\* ----------------------------------------------------- program constants
players_count == 2

\* ------------------------------------------------------------ Option<T>
None == <<>>
Some(x) == <<x>>
is_some(o) == Len(o) > 0
is_none(o) == Len(o) = 0
unwrap(o) == o[1]

MapPos == 0 .. (NumTiles - 1)
UnitId == 0 .. (MaxUnits - 1)
PlayerId == 0 .. (players_count - 1)

\* ------------------------------------------------------------- geometry
HexSize == 2
map_pos_to_world_pos(p) == [x |-> p * HexSize, z |-> 0]
lift(v) == [v EXCEPT !.z = @ + 1]

\* ------------------------------------------------- events and commands
\* Events and commands are records of one shape, so that any two compare.
EventMove(unit_id, path) ==
    [tag |-> "Move", id |-> unit_id, id2 |-> 0, pos |-> 0, path |-> path]
EventEndTurn(old_id, new_id) ==
    [tag |-> "EndTurn", id |-> old_id, id2 |-> new_id, pos |-> 0, path |-> <<>>]
EventCreateUnit(id, pos) ==
    [tag |-> "CreateUnit", id |-> id, id2 |-> 0, pos |-> pos, path |-> <<>>]
EventAttackUnit(attacker_id, defender_id) ==
    [tag |-> "AttackUnit", id |-> attacker_id, id2 |-> defender_id, pos |-> 0,
     path |-> <<>>]

CommandEndTurn == [tag |-> "EndTurn", id |-> 0, id2 |-> 0, pos |-> 0, path |-> <<>>]
CommandCreateUnit(pos) ==
    [tag |-> "CreateUnit", id |-> 0, id2 |-> 0, pos |-> pos, path |-> <<>>]
CommandAttackUnit(attacker_id, defender_id) ==
    [tag |-> "AttackUnit", id |-> attacker_id, id2 |-> defender_id, pos |-> 0,
     path |-> <<>>]
CommandMove(unit_id, path) ==
    [tag |-> "Move", id |-> unit_id, id2 |-> 0, pos |-> 0, path |-> path]

\* ------------------------------------------------------- the simulation
\* core: the current player, the undelivered events (oldest first) and the
\* next unit id.
CoreNew == [player_id |-> 0, queue |-> <<>>, next_unit_id |-> 0]

command_to_event(c, cmd) ==
    CASE cmd.tag = "EndTurn" ->
           EventEndTurn(c.player_id, (c.player_id + 1) % players_count)
      [] cmd.tag = "CreateUnit" -> EventCreateUnit(c.next_unit_id, cmd.pos)
      [] cmd.tag = "AttackUnit" -> EventAttackUnit(cmd.id, cmd.id2)
      [] OTHER -> EventMove(cmd.id, cmd.path)

do_command(c, cmd) ==
    LET e == command_to_event(c, cmd) IN
    [player_id |-> IF cmd.tag = "EndTurn" THEN e.id2 ELSE c.player_id,
     queue |-> Append(c.queue, e),
     next_unit_id |-> IF cmd.tag = "CreateUnit" THEN c.next_unit_id + 1
                      ELSE c.next_unit_id]

\* get_event: the oldest undelivered event, removed from the queue.
get_event(c) ==
    IF c.queue = <<>> THEN [event |-> None, core |-> c]
    ELSE [event |-> Some(Head(c.queue)), core |-> [c EXCEPT !.queue = Tail(c.queue)]]

\* --------------------------------------------------- game-state mirror
\* GameState.units: unit id -> Option<MapPos>.
GameStateNew == [u \in UnitId |-> None]

apply_event_fails(units, e) ==
    e.tag = "Move" /\ (is_none(units[e.id]) \/ e.path = <<>>)

apply_event(units, e) ==
    CASE e.tag = "Move" ->
           IF apply_event_fails(units, e) THEN units
           ELSE [units EXCEPT ![e.id] = Some(e.path[Len(e.path)])]
      [] e.tag = "CreateUnit" -> [units EXCEPT ![e.id] = Some(e.pos)]
      [] e.tag = "AttackUnit" ->
           IF e.id2 \in UnitId THEN [units EXCEPT ![e.id2] = None] ELSE units
      [] OTHER -> units

\* ----------------------------------------------------------- pathfinder
\* A pathfinder remembers the position of the unit it was filled for.
PathfinderNew == [origin |-> None]

fill_map(units, unit_pos) == [origin |-> Some(unit_pos)]

RECURSIVE Walk(_, _)
Walk(from, to) ==
    IF from = to THEN <<to>>
    ELSE <<from>> \o Walk(IF from < to THEN from + 1 ELSE from - 1, to)

\* get_path: the tiles from the filled origin to dest, both included.
get_path(pf, dest) ==
    IF is_none(pf.origin) THEN <<>> ELSE Walk(unwrap(pf.origin), dest)

\* ----------------------------------------------------------- tile picker
\* The pointer is a screen column; column NumTiles lies outside the map.
ScreenX == 0 .. NumTiles
pick_tile(mouse_pos) == IF mouse_pos \in MapPos THEN Some(mouse_pos) ELSE None

\* ------------------------------------------------------ event visualizers
\* A visualizer is its event plus the animation frame i reached so far.
make_event_visualizer(e) ==
    [tag |-> e.tag, id |-> e.id, id2 |-> e.id2, pos |-> e.pos, path |-> e.path,
     i |-> 0]

frames_count(v) ==
    CASE v.tag = "Move" ->
           IF v.path = <<>> THEN 0 ELSE (Len(v.path) - 1) * FramesPerStep
      [] v.tag = "EndTurn" -> 0
      [] OTHER -> FramesPerStep

is_finished(v) == v.i >= frames_count(v)

\* Move: the interpolated position of frame i, between two tiles of the path.
current_position(v) ==
    LET seg == v.i \div FramesPerStep
        frac == v.i % FramesPerStep
        a == map_pos_to_world_pos(v.path[seg + 1])
        b == map_pos_to_world_pos(v.path[seg + 2])
    IN  [x |-> a.x + ((b.x - a.x) * frac) \div FramesPerStep, z |-> 0]

SceneNew == [u \in UnitId |-> None]

vis_start(v, scene) ==
    IF v.tag = "CreateUnit"
    THEN [scene EXCEPT ![v.id] =
             Some([map_pos_to_world_pos(v.pos) EXCEPT !.z = -1])]
    ELSE scene

vis_draw_fails(v, scene) ==
    ~is_finished(v) /\ v.tag = "Move" /\ is_none(scene[v.id])

vis_draw_looping(v, scene) ==
    IF is_finished(v) \/ vis_draw_fails(v, scene) THEN [vis |-> v, scene |-> scene]
    ELSE [vis |-> [v EXCEPT !.i = (@ + 1) % frames_count(v)], scene |-> scene]

vis_draw(v, scene) ==
    IF is_finished(v) \/ vis_draw_fails(v, scene) THEN [vis |-> v, scene |-> scene]
    ELSE [vis |-> [v EXCEPT !.i = @ + 1],
          scene |-> IF v.tag = "Move"
                    THEN [scene EXCEPT ![v.id] = Some(current_position(v))]
                    ELSE scene]

vis_end_fails(v, scene) ==
    v.tag = "Move" /\ (is_none(scene[v.id]) \/ v.path = <<>>)

vis_end(v, scene) ==
    CASE v.tag = "Move" ->
           IF vis_end_fails(v, scene) THEN scene
           ELSE [scene EXCEPT
                   ![v.id] = Some(map_pos_to_world_pos(v.path[Len(v.path)]))]
      [] v.tag = "CreateUnit" ->
           [scene EXCEPT ![v.id] = Some(map_pos_to_world_pos(v.pos))]
      [] v.tag = "AttackUnit" ->
           IF v.id2 \in UnitId THEN [scene EXCEPT ![v.id2] = None] ELSE scene
      [] OTHER -> scene

\* ================================================================ state
VARIABLES
    pc,                 \* the step of tick() that runs next
    ignored,            \* history: the kind of command input ("key" for T, U
                        \*          or A, "click") that this handle_events dropped
                        \*          last, an animation being in flight
    mouse_pos,          \* Visualizer.mouse_pos (screen column)
    selected_tile_pos,  \* Visualizer.selected_tile_pos
    selected_unit_id,   \* Visualizer.selected_unit_id
    scenes,             \* Visualizer.scenes
    core,               \* Visualizer.core
    event,              \* Visualizer.event
    event_visualizer,   \* Visualizer.event_visualizer
    game_state,         \* Visualizer.game_state
    pathfinders,        \* Visualizer.pathfinders
    failed,             \* the program has aborted (fail!, a failed unwrap or get)
    logic_calls,        \* history: the calls made by this tick's logic()
    life,               \* history: the calls made so far for the event that is
                        \*          animated, or was ended in this tick
    tracked,            \* history: k >= 1 when an observed event is the k-th of
                        \*          the simulation's queue, 0 when none is observed
    tick_steps,         \* history: the steps of the running (or last) tick
    sm_unit_id,         \* SelectionManager.unit_id
    sm_scene,           \* the Scene handed to the SelectionManager
    sm_state,           \* the GameState handed to the SelectionManager
    sm_op,              \* history: the SelectionManager call made last
    sm_failed,          \* a SelectionManager call has panicked
    tp_win_size,        \* TilePicker.win_size
    tp_mouse_pos,       \* Visualizer.mouse_pos, both coordinates
    tp_read,            \* history: the pixel that the last pick read
    tp_resized,         \* history: the size of the last SizeEvent (at first
                        \*          the size the window was created with)
    tp_op,              \* history: the handler that ran last
    gl_objects,         \* the Vao and Vbo values alive
    gl_status,          \* "running", "failing" (fail! is unwinding), "ended"
    gl_calls,           \* history: the GPU calls issued so far
    gl_last             \* history: the last verify!: its call, the error code
                        \*          it found, what it returned, and whether a
                        \*          verify! had failed before it

loop_vars == <<pc, ignored, mouse_pos,
               selected_tile_pos, selected_unit_id, scenes, core, event,
               event_visualizer, game_state, pathfinders, failed, logic_calls,
               life, tracked, tick_steps>>
sm_vars == <<sm_unit_id, sm_scene, sm_state, sm_op, sm_failed>>
tp_vars == <<tp_win_size, tp_mouse_pos, tp_read, tp_resized, tp_op>>
gl_vars == <<gl_objects, gl_status, gl_calls, gl_last>>
vars == <<loop_vars, sm_vars, tp_vars, gl_vars>>

LifeNew == [order |-> <<>>, draws |-> 0, end_finished |-> FALSE]

\* Visualizer::new
VisualizerNew ==
    /\ mouse_pos = 0
    /\ selected_tile_pos = None
    /\ selected_unit_id = None
    /\ core = CoreNew
    /\ event_visualizer = None
    /\ event = None
    /\ scenes = [p \in PlayerId |-> SceneNew]
    /\ game_state = [p \in PlayerId |-> GameStateNew]
    /\ pathfinders = [p \in PlayerId |-> PathfinderNew]

LoopInit ==
    /\ VisualizerNew
    /\ pc = "handle_events"
    /\ ignored = "none"
    /\ failed = FALSE
    /\ logic_calls = <<>>
    /\ life = LifeNew
    /\ tracked = 0
    /\ tick_steps = <<>>

\* ------------------------------------------------------------- tick()
tick_order_pick_first == <<"handle_events", "pick_tile", "logic", "draw">>
tick_order == <<"handle_events", "logic", "pick_tile", "draw">>

StepAfter(step) ==
    LET k == CHOOSE j \in 1 .. Len(tick_order) : tick_order[j] = step
    IN  IF k = Len(tick_order) THEN tick_order[1] ELSE tick_order[k + 1]

StepDone(step) ==
    /\ pc' = StepAfter(step)
    /\ tick_steps' = IF Len(tick_steps) >= Len(tick_order) THEN <<step>>
                      ELSE Append(tick_steps, step)
    /\ UNCHANGED <<sm_vars, tp_vars, gl_vars>>

\* The units of the current player's mirror that stand on pos.
UnitsAt(units, pos) == {u \in UnitId : units[u] = Some(pos)}

unit_at_opt(units, pos) ==
    IF UnitsAt(units, pos) = {} THEN {None} ELSE {Some(u) : u \in UnitsAt(units, pos)}

CurrentState == game_state[core.player_id]

\* The bounds of the model: the simulation holds at most MaxQueue undelivered
\* events and hands out at most MaxUnits unit ids.
WithinBounds(c) == Len(c.queue) <= MaxQueue /\ c.next_unit_id <= MaxUnits

\* ------------------------------------------------------ command intents
end_turn_keeping_selection ==
    /\ core' = do_command(core, CommandEndTurn)
    /\ UNCHANGED <<selected_unit_id, pathfinders>>

end_turn ==
    /\ core' = do_command(core, CommandEndTurn)
    /\ selected_unit_id' = None
    /\ UNCHANGED pathfinders

create_unit ==
    /\ IF /\ is_some(selected_tile_pos)
          /\ unit_at_opt(CurrentState, unwrap(selected_tile_pos)) = {None}
       THEN core' = do_command(core, CommandCreateUnit(unwrap(selected_tile_pos)))
       ELSE core' = core
    /\ UNCHANGED <<selected_unit_id, pathfinders>>

attack_unit ==
    /\ IF is_some(selected_tile_pos)
       THEN \E unit \in unit_at_opt(CurrentState, unwrap(selected_tile_pos)) :
               IF is_some(unit)
               THEN core' = do_command(core, CommandAttackUnit(0, unwrap(unit)))
               ELSE core' = core
       ELSE core' = core
    /\ UNCHANGED <<selected_unit_id, pathfinders>>

\* ------------------------------------------------------- handle_events
\* "Other": the quit, camera and unbound keys, which touch none of the state here.
Keys == {"T", "U", "A", "Other"}

\* The early returns of handle_key_event and handle_mouse_button_event.
key_never_blocked(ev_vis) == FALSE
key_blocked(ev_vis) == is_some(ev_vis)
mouse_blocked(ev_vis) == is_some(ev_vis)

InputDone ==
    UNCHANGED <<pc, tick_steps, scenes, event, event_visualizer, game_state,
                   failed, logic_calls, life, tracked, sm_vars, tp_vars,
                   gl_vars>>

HandleKeyEvent(key) ==
    /\ pc = "handle_events" /\ ~failed
    /\ ignored' = IF key_blocked(event_visualizer) /\ key \in {"T", "U", "A"}
                  THEN "key" ELSE ignored
    /\ \/ /\ key_blocked(event_visualizer) \/ key \notin {"T", "U", "A"}
          /\ UNCHANGED <<core, selected_unit_id, pathfinders>>
       \/ /\ ~key_blocked(event_visualizer) /\ key = "T"
          /\ end_turn
       \/ /\ ~key_blocked(event_visualizer) /\ key = "U"
          /\ create_unit
       \/ /\ ~key_blocked(event_visualizer) /\ key = "A"
          /\ attack_unit
    /\ WithinBounds(core')
    /\ InputDone
    /\ UNCHANGED <<mouse_pos, selected_tile_pos>>

HandleCursorPosEvent(pos) ==
    /\ pc = "handle_events" /\ ~failed
    /\ mouse_pos' = pos
    /\ InputDone
    /\ UNCHANGED <<ignored, selected_tile_pos, selected_unit_id, core,
                   pathfinders>>

\* A slip of the click handler: the Move branch tried before the selection.
HandleMouseButtonEventMoveFirst ==
    /\ pc = "handle_events" /\ ~failed
    /\ ignored' = IF mouse_blocked(event_visualizer) THEN "click" ELSE ignored
    /\ \/ /\ mouse_blocked(event_visualizer) \/ is_none(selected_tile_pos)
          /\ UNCHANGED <<core, selected_unit_id, pathfinders>>
       \/ /\ ~mouse_blocked(event_visualizer) /\ is_some(selected_tile_pos)
          /\ LET pos == unwrap(selected_tile_pos)
                 id == core.player_id
             IN  \E unit \in unit_at_opt(CurrentState, pos) :
                    IF is_some(selected_unit_id)
                    THEN /\ core' = do_command(core,
                               CommandMove(unwrap(selected_unit_id),
                                           get_path(pathfinders[id], pos)))
                         /\ UNCHANGED <<selected_unit_id, pathfinders>>
                    ELSE IF is_some(unit)
                    THEN /\ selected_unit_id' = unit
                         /\ pathfinders' = [pathfinders EXCEPT ![id] =
                               fill_map(CurrentState,
                                        unwrap(CurrentState[unwrap(unit)]))]
                         /\ core' = core
                    ELSE UNCHANGED <<core, selected_unit_id, pathfinders>>
    /\ WithinBounds(core')
    /\ InputDone
    /\ UNCHANGED <<mouse_pos, selected_tile_pos>>

HandleMouseButtonEvent ==
    /\ pc = "handle_events" /\ ~failed
    /\ ignored' = IF mouse_blocked(event_visualizer) THEN "click" ELSE ignored
    /\ \/ /\ mouse_blocked(event_visualizer) \/ is_none(selected_tile_pos)
          /\ UNCHANGED <<core, selected_unit_id, pathfinders>>
       \/ /\ ~mouse_blocked(event_visualizer) /\ is_some(selected_tile_pos)
          /\ LET pos == unwrap(selected_tile_pos)
                 id == core.player_id
             IN  \E unit \in unit_at_opt(CurrentState, pos) :
                    IF is_some(unit)
                    THEN /\ selected_unit_id' = unit
                         /\ pathfinders' = [pathfinders EXCEPT ![id] =
                               fill_map(CurrentState,
                                        unwrap(CurrentState[unwrap(unit)]))]
                         /\ core' = core
                    ELSE IF is_some(selected_unit_id)
                    THEN /\ core' = do_command(core,
                               CommandMove(unwrap(selected_unit_id),
                                           get_path(pathfinders[id], pos)))
                         /\ UNCHANGED <<selected_unit_id, pathfinders>>
                    ELSE UNCHANGED <<core, selected_unit_id, pathfinders>>
    /\ WithinBounds(core')
    /\ InputDone
    /\ UNCHANGED <<mouse_pos, selected_tile_pos>>

\* The events polled by get_events are exhausted.
EndHandleEvents ==
    /\ pc = "handle_events" /\ ~failed
    /\ StepDone("handle_events")
    /\ ignored' = "none"
    /\ UNCHANGED <<mouse_pos, selected_tile_pos, selected_unit_id,
                   scenes, core, event, event_visualizer, game_state, pathfinders,
                   failed, logic_calls, life, tracked>>

\* --------------------------------------------------------------- logic
\* The two conditions of logic(): poll the simulation, or end the animation.
should_poll_always(ev_vis) == TRUE
should_poll(ev_vis) == is_none(ev_vis)
should_end_unfinished(ev_vis) == TRUE
should_end(ev_vis) == is_finished(unwrap(ev_vis))

\* The branch of logic() that ends the animation, up to the clearing of the
\* visualizer and the event: end, then apply_event, then both set to None.
\* A failing call aborts the program with the earlier calls' effects in place.
logic_end_no_apply(ev_vis, ev, scene, units) ==
    [scene |-> vis_end(unwrap(ev_vis), scene), units |-> units,
     event_visualizer |-> None, event |-> None, calls |-> <<"end">>,
     failed |-> FALSE]

logic_end_skipping_end(ev_vis, ev, scene, units) ==
    IF apply_event_fails(units, unwrap(ev))
    THEN [scene |-> scene, units |-> units, event_visualizer |-> ev_vis,
          event |-> ev, calls |-> <<"apply_event">>, failed |-> TRUE]
    ELSE [scene |-> scene, units |-> apply_event(units, unwrap(ev)),
          event_visualizer |-> None, event |-> None,
          calls |-> <<"apply_event">>, failed |-> FALSE]

logic_end(ev_vis, ev, scene, units) ==
    LET v == unwrap(ev_vis)
        e == unwrap(ev)
    IN  IF vis_end_fails(v, scene)
        THEN [scene |-> scene, units |-> units, event_visualizer |-> ev_vis,
              event |-> ev, calls |-> <<"end">>, failed |-> TRUE]
        ELSE IF apply_event_fails(units, e)
        THEN [scene |-> vis_end(v, scene), units |-> units,
              event_visualizer |-> ev_vis, event |-> ev,
              calls |-> <<"end", "apply_event">>, failed |-> TRUE]
        ELSE [scene |-> vis_end(v, scene), units |-> apply_event(units, e),
              event_visualizer |-> None, event |-> None,
              calls |-> <<"end", "apply_event">>, failed |-> FALSE]

\* A slip of the poll branch: the event applied to the mirror when dequeued.
LogicPollApplying ==
    /\ pc = "logic" /\ ~failed
    /\ should_poll(event_visualizer)
    /\ LET r == get_event(core)
           id == r.core.player_id
       IN  /\ core' = r.core
           /\ tracked' = IF tracked >= 1 /\ is_some(r.event) THEN tracked - 1
                          ELSE tracked
           /\ IF is_some(r.event)
              THEN LET vis == make_event_visualizer(unwrap(r.event))
                   IN  /\ event' = r.event
                       /\ event_visualizer' = Some(vis)
                       /\ scenes' = [scenes EXCEPT ![id] = vis_start(vis, scenes[id])]
                       /\ game_state' = [game_state EXCEPT ![id] =
                                           apply_event(@, unwrap(r.event))]
                       /\ logic_calls' = <<"get_event", "start">>
                       /\ life' = [order |-> <<"start">>, draws |-> 0,
                                   end_finished |-> FALSE]
              ELSE /\ logic_calls' = <<"get_event">>
                   /\ UNCHANGED <<event, event_visualizer, scenes, life, game_state>>
    /\ StepDone("logic")
    /\ UNCHANGED <<ignored, mouse_pos, selected_tile_pos, selected_unit_id,
                   pathfinders, failed>>

LogicPoll ==
    /\ pc = "logic" /\ ~failed
    /\ should_poll(event_visualizer)
    /\ LET r == get_event(core)
           id == r.core.player_id
       IN  /\ core' = r.core
           /\ tracked' = IF tracked >= 1 /\ is_some(r.event) THEN tracked - 1
                          ELSE tracked
           /\ IF is_some(r.event)
              THEN LET vis == make_event_visualizer(unwrap(r.event))
                   IN  /\ event' = r.event
                       /\ event_visualizer' = Some(vis)
                       /\ scenes' = [scenes EXCEPT ![id] = vis_start(vis, scenes[id])]
                       /\ logic_calls' = <<"get_event", "start">>
                       /\ life' = [order |-> <<"start">>, draws |-> 0,
                                   end_finished |-> FALSE]
              ELSE /\ logic_calls' = <<"get_event">>
                   /\ UNCHANGED <<event, event_visualizer, scenes, life>>
    /\ StepDone("logic")
    /\ UNCHANGED <<ignored, mouse_pos, selected_tile_pos, selected_unit_id, game_state, pathfinders,
                   failed>>

\* Two slips of the end branch: the pathfinder filled from the mirror as it
\* was before apply_event, and the simulation polled right after the end.
LogicEndStaleFill ==
    /\ pc = "logic" /\ ~failed
    /\ ~should_poll(event_visualizer) /\ should_end(event_visualizer)
    /\ LET id == core.player_id
           r == logic_end(event_visualizer, event, scenes[id], game_state[id])
           refill == ~r.failed /\ is_some(selected_unit_id)
           missing == refill /\ is_none(game_state[id][unwrap(selected_unit_id)])
       IN  /\ scenes' = [scenes EXCEPT ![id] = r.scene]
           /\ game_state' = [game_state EXCEPT ![id] = r.units]
           /\ event_visualizer' = r.event_visualizer
           /\ event' = r.event
           /\ pathfinders' =
                 IF refill /\ ~missing
                 THEN [pathfinders EXCEPT ![id] =
                         fill_map(game_state[id],
                                  unwrap(game_state[id][unwrap(selected_unit_id)]))]
                 ELSE pathfinders
           /\ failed' = (r.failed \/ missing)
           /\ logic_calls' = <<"is_finished">> \o r.calls
                               \o (IF refill THEN <<"fill_map">> ELSE <<>>)
           /\ life' = [life EXCEPT !.order = @ \o r.calls,
                                   !.end_finished = is_finished(unwrap(event_visualizer))]
    /\ StepDone("logic")
    /\ UNCHANGED <<ignored, mouse_pos, selected_tile_pos, selected_unit_id, core,
                   tracked>>

LogicEndThenPoll ==
    /\ pc = "logic" /\ ~failed
    /\ ~should_poll(event_visualizer) /\ should_end(event_visualizer)
    /\ LET id == core.player_id
           r == logic_end(event_visualizer, event, scenes[id], game_state[id])
           g == get_event(core)
           start == ~r.failed /\ is_some(g.event)
           vis == make_event_visualizer(unwrap(g.event))
       IN  /\ game_state' = [game_state EXCEPT ![id] = r.units]
           /\ failed' = r.failed
           /\ core' = IF r.failed THEN core ELSE g.core
           /\ event' = IF start THEN g.event ELSE r.event
           /\ event_visualizer' = IF start THEN Some(vis) ELSE r.event_visualizer
           /\ scenes' = [scenes EXCEPT ![id] =
                           IF start THEN vis_start(vis, r.scene) ELSE r.scene]
           /\ logic_calls' = <<"is_finished">> \o r.calls \o
                 (IF r.failed THEN <<>> ELSE <<"get_event">>) \o
                 (IF start THEN <<"start">> ELSE <<>>)
           /\ life' = IF start THEN [LifeNew EXCEPT !.order = <<"start">>]
                      ELSE [life EXCEPT !.order = @ \o r.calls,
                                        !.end_finished = TRUE]
    /\ StepDone("logic")
    /\ UNCHANGED <<ignored, mouse_pos, selected_tile_pos, selected_unit_id,
                   pathfinders, tracked>>

LogicEnd ==
    /\ pc = "logic" /\ ~failed
    /\ ~should_poll(event_visualizer) /\ should_end(event_visualizer)
    /\ LET id == core.player_id
           r == logic_end(event_visualizer, event, scenes[id], game_state[id])
           applied == ~r.failed /\ "apply_event" \in {r.calls[k] : k \in DOMAIN r.calls}
           refill == ~r.failed /\ is_some(selected_unit_id)
           missing == refill /\ is_none(r.units[unwrap(selected_unit_id)])
       IN  /\ scenes' = [scenes EXCEPT ![id] = r.scene]
           /\ game_state' = [game_state EXCEPT ![id] = r.units]
           /\ event_visualizer' = r.event_visualizer
           /\ event' = r.event
           /\ pathfinders' =
                 IF refill /\ ~missing
                 THEN [pathfinders EXCEPT ![id] =
                         fill_map(r.units, unwrap(r.units[unwrap(selected_unit_id)]))]
                 ELSE pathfinders
           /\ failed' = (r.failed \/ missing)
           /\ logic_calls' = <<"is_finished">> \o r.calls
                               \o (IF refill THEN <<"fill_map">> ELSE <<>>)
           /\ life' = [life EXCEPT !.order = @ \o r.calls,
                                   !.end_finished = is_finished(unwrap(event_visualizer))]
    /\ StepDone("logic")
    /\ UNCHANGED <<ignored, mouse_pos, selected_tile_pos, selected_unit_id, core,
                   tracked>>

\* An animation is running and not finished: logic() does nothing.
LogicWait ==
    /\ pc = "logic" /\ ~failed
    /\ ~should_poll(event_visualizer) /\ ~should_end(event_visualizer)
    /\ logic_calls' = <<"is_finished">>
    /\ StepDone("logic")
    /\ UNCHANGED <<ignored, mouse_pos, selected_tile_pos, selected_unit_id, scenes, core, event,
                   event_visualizer, game_state, pathfinders, failed, life,
                   tracked>>

\* ----------------------------------------------------------- pick_tile
PickTile ==
    /\ pc = "pick_tile" /\ ~failed
    /\ selected_tile_pos' = pick_tile(mouse_pos)
    /\ StepDone("pick_tile")
    /\ UNCHANGED <<ignored, mouse_pos, selected_unit_id, scenes, core, event, event_visualizer,
                   game_state, pathfinders, failed, logic_calls, life,
                   tracked>>

\* ---------------------------------------------------------------- draw
DrawSceneOnly ==
    /\ pc = "draw" /\ ~failed
    /\ life' = IF is_none(event_visualizer) THEN LifeNew ELSE life
    /\ logic_calls' = <<>>
    /\ StepDone("draw")
    /\ UNCHANGED <<failed, event_visualizer, scenes, ignored, mouse_pos,
                   selected_tile_pos, selected_unit_id, core, event,
                   game_state, pathfinders, tracked>>

Draw ==
    /\ pc = "draw" /\ ~failed
    /\ IF ~is_none(event_visualizer)
       THEN LET id == core.player_id
                v == unwrap(event_visualizer)
                r == vis_draw(v, scenes[id])
            IN  /\ failed' = vis_draw_fails(v, scenes[id])
                /\ event_visualizer' = Some(r.vis)
                /\ scenes' = [scenes EXCEPT ![id] = r.scene]
                /\ life' = [life EXCEPT !.draws = @ + 1]
       ELSE /\ life' = LifeNew
            /\ UNCHANGED <<failed, event_visualizer, scenes>>
    /\ logic_calls' = <<>>
    /\ StepDone("draw")
    /\ UNCHANGED <<ignored, mouse_pos, selected_tile_pos, selected_unit_id, core, event, game_state,
                   pathfinders, tracked>>

\* ------------------------------------------------------- specification
Next ==
    \/ \E key \in Keys : HandleKeyEvent(key)
    \/ \E pos \in ScreenX : HandleCursorPosEvent(pos)
    \/ HandleMouseButtonEvent
    \/ EndHandleEvents
    \/ LogicPoll
    \/ LogicEnd
    \/ LogicWait
    \/ PickTile
    \/ Draw

SmIdle ==
    /\ sm_unit_id = None
    /\ sm_scene = <<>>
    /\ sm_state = <<>>
    /\ sm_op = <<"new">>
    /\ sm_failed = FALSE

\* The tile picker's window and the GPU calls, at rest.
TpIdle ==
    /\ tp_win_size = [w |-> 1, h |-> 1]
    /\ tp_mouse_pos = [x |-> 0, y |-> 0]
    /\ tp_read = None
    /\ tp_resized = [w |-> 1, h |-> 1]
    /\ tp_op = "new"

GlIdle ==
    /\ gl_objects = 0
    /\ gl_status = "running"
    /\ gl_calls = 0
    /\ gl_last = None

Init == LoopInit /\ SmIdle /\ TpIdle /\ GlIdle
Spec == Init /\ [][Next]_vars

\* ------------------------------------------------- the loop, kept ticking
\* An observer picks one undelivered event of the simulation to follow.
Track(k) ==
    /\ tracked = 0 /\ ~failed /\ pc = "logic"
    /\ k \in 1 .. Len(core.queue)
    /\ tracked' = k
    /\ UNCHANGED <<pc, ignored, mouse_pos, selected_tile_pos,
                   selected_unit_id, scenes, core, event, event_visualizer,
                   game_state, pathfinders, failed, logic_calls, life,
                   tick_steps, sm_vars, tp_vars, gl_vars>>

LiveNext ==
    \/ \E key \in Keys : HandleKeyEvent(key)
    \/ \E pos \in ScreenX : HandleCursorPosEvent(pos)
    \/ HandleMouseButtonEvent
    \/ EndHandleEvents
    \/ LogicPoll
    \/ LogicEnd
    \/ LogicWait
    \/ PickTile
    \/ Draw
    \/ \E k \in 1 .. MaxQueue : Track(k)

\* tick() keeps being called: the main loop runs it again after every frame,
\* and every step of a tick returns (handle_events loops over the finite list
\* that get_events polled).
TickStep == EndHandleEvents \/ LogicPoll \/ LogicEnd \/ LogicWait \/ PickTile \/ Draw

LiveSpec == Init /\ [][LiveNext]_vars /\ WF_vars(TickStep)
\* ===================================================== SelectionManager
\* Scene.nodes: node id -> Option<SceneNode>. The unit nodes carry the unit
\* ids; the reserved selection node id collides with none of them.
SELECTION_NODE_ID == MaxUnits
NodeId == UnitId \cup {SELECTION_NODE_ID}

SceneNode(pos, rot, mesh_id, children) ==
    [pos |-> pos, rot |-> rot, mesh_id |-> mesh_id, children |-> children]

UnitNode(map_pos) ==
    SceneNode(map_pos_to_world_pos(map_pos), 0, Some("unit_mesh"), <<>>)

\* SelectionManager::new
SelectionManagerNew(mesh_id) == [unit_id |-> None, mesh_id |-> mesh_id]

set_unit_id(sm, unit_id) == [sm EXCEPT !.unit_id = Some(unit_id)]

\* get_pos panics when nothing is selected or the unit is not in the state.
get_pos_fails(sm, units) ==
    is_none(sm.unit_id) \/ is_none(units[unwrap(sm.unit_id)])

get_pos(sm, units) ==
    lift(map_pos_to_world_pos(unwrap(units[unwrap(sm.unit_id)])))

\* Each call gives the manager and the scene it leaves, and whether it
\* panicked; a panic leaves the effects of the statements before it.
move_unit_node(sm, units, nodes) ==
    IF is_none(nodes[SELECTION_NODE_ID]) \/ get_pos_fails(sm, units)
    THEN [sm |-> sm, nodes |-> nodes, failed |-> TRUE]
    ELSE [sm |-> sm,
          nodes |-> [nodes EXCEPT ![unwrap(sm.unit_id)] =
                       Some([unwrap(@) EXCEPT !.pos = get_pos(sm, units)])],
          failed |-> FALSE]

move_selection_marker(sm, units, nodes) ==
    IF is_none(nodes[SELECTION_NODE_ID]) \/ get_pos_fails(sm, units)
    THEN [sm |-> sm, nodes |-> nodes, failed |-> TRUE]
    ELSE [sm |-> sm,
          nodes |-> [nodes EXCEPT ![SELECTION_NODE_ID] =
                       Some([unwrap(@) EXCEPT !.pos = get_pos(sm, units)])],
          failed |-> FALSE]

create_keeping_selection_marker(sm, units, nodes, unit_id) ==
    LET sm1 == set_unit_id(sm, unit_id)
    IN  IF get_pos_fails(sm1, units)
        THEN [sm |-> sm1, nodes |-> nodes, failed |-> TRUE]
        ELSE [sm |-> sm1,
              nodes |-> IF is_some(nodes[SELECTION_NODE_ID]) THEN nodes
                        ELSE [nodes EXCEPT ![SELECTION_NODE_ID] =
                                Some(SceneNode(get_pos(sm1, units), 0,
                                               Some(sm1.mesh_id), <<>>))],
              failed |-> FALSE]

create_selection_marker(sm, units, nodes, unit_id) ==
    LET sm1 == set_unit_id(sm, unit_id)
        removed == [nodes EXCEPT ![SELECTION_NODE_ID] = None]
    IN  IF get_pos_fails(sm1, units)
        THEN [sm |-> sm1, nodes |-> removed, failed |-> TRUE]
        ELSE [sm |-> sm1,
              nodes |-> [removed EXCEPT ![SELECTION_NODE_ID] =
                           Some(SceneNode(get_pos(sm1, units), 0,
                                          Some(sm1.mesh_id), <<>>))],
              failed |-> FALSE]

deselect_keeping_unit(sm, nodes) ==
    [sm |-> sm, nodes |-> [nodes EXCEPT ![SELECTION_NODE_ID] = None],
     failed |-> FALSE]

deselect(sm, nodes) ==
    [sm |-> [sm EXCEPT !.unit_id = None],
     nodes |-> [nodes EXCEPT ![SELECTION_NODE_ID] = None],
     failed |-> FALSE]

Manager == [unit_id |-> sm_unit_id, mesh_id |-> "selection_mesh"]

SmCall(r, op) ==
    /\ ~sm_failed
    /\ sm_unit_id' = r.sm.unit_id
    /\ sm_scene' = r.nodes
    /\ sm_failed' = r.failed
    /\ sm_op' = op
    /\ UNCHANGED <<sm_state, loop_vars, tp_vars, gl_vars>>

CreateSelectionMarker(unit_id) ==
    SmCall(create_selection_marker(Manager, sm_state, sm_scene, unit_id),
           <<"create", unit_id>>)

MoveSelectionMarker ==
    SmCall(move_selection_marker(Manager, sm_state, sm_scene), <<"move">>)

Deselect == SmCall(deselect(Manager, sm_scene), <<"deselect">>)

\* Between two calls the game goes on: an applied event moves a unit, or
\* removes it, in the state and in the scene.
UnitMoves(u, p) ==
    /\ ~sm_failed
    /\ is_some(sm_state[u])
    /\ sm_state' = [sm_state EXCEPT ![u] = Some(p)]
    /\ sm_scene' = [sm_scene EXCEPT ![u] = Some(UnitNode(p))]
    /\ sm_op' = <<"event">>
    /\ UNCHANGED <<sm_unit_id, sm_failed, loop_vars, tp_vars, gl_vars>>

UnitDies(u) ==
    /\ ~sm_failed
    /\ is_some(sm_state[u])
    /\ sm_state' = [sm_state EXCEPT ![u] = None]
    /\ sm_scene' = [sm_scene EXCEPT ![u] = None]
    /\ sm_op' = <<"event">>
    /\ UNCHANGED <<sm_unit_id, sm_failed, loop_vars, tp_vars, gl_vars>>

\* No selection and no marker; the units of the state have their nodes.
SelInit ==
    /\ LoopInit /\ TpIdle /\ GlIdle
    /\ sm_unit_id = SelectionManagerNew("selection_mesh").unit_id
    /\ sm_state \in [UnitId -> {None} \cup {Some(p) : p \in MapPos}]
    /\ sm_scene = [n \in NodeId |->
                     IF n \in UnitId /\ is_some(sm_state[n])
                     THEN Some(UnitNode(unwrap(sm_state[n]))) ELSE None]
    /\ sm_op = <<"new">>
    /\ sm_failed = FALSE

SelNext ==
    \/ \E unit_id \in UnitId : CreateSelectionMarker(unit_id)
    \/ MoveSelectionMarker
    \/ Deselect
    \/ \E u \in UnitId, p \in MapPos : UnitMoves(u, p)
    \/ \E u \in UnitId : UnitDies(u)

SelSpec == SelInit /\ [][SelNext]_vars

\* ======================================================= picking a pixel
\* A window size and a pointer position, in pixels.
WinSize == [w : 1 .. MaxWinSize, h : 1 .. MaxWinSize]
ScreenPos == [x : 0 .. MaxWinSize, y : 0 .. MaxWinSize]

\* read_pixel_bytes: the column and row that gl::ReadPixels is asked for.
read_pixel_bytes_unflipped(win_size, pos) ==
    [x |-> pos.x, y |-> pos.y]

read_pixel_bytes(win_size, pos) ==
    LET height == win_size.h
        reverted_h == height - pos.y
    IN  [x |-> pos.x, y |-> reverted_h]

\* TilePicker::set_win_size
set_win_size(size) == size

TpDone(op) ==
    /\ tp_op' = op
    /\ UNCHANGED <<loop_vars, sm_vars, gl_vars>>

\* handle_event, glfw::SizeEvent(w, h)
SizeEvent(w, h) ==
    /\ tp_win_size' = set_win_size([w |-> w, h |-> h])
    /\ tp_resized' = [w |-> w, h |-> h]
    /\ TpDone("size")
    /\ UNCHANGED <<tp_mouse_pos, tp_read>>

\* handle_event, glfw::CursorPosEvent(x, y)
CursorPosEvent(x, y) ==
    /\ tp_mouse_pos' = [x |-> x, y |-> y]
    /\ TpDone("cursor")
    /\ UNCHANGED <<tp_win_size, tp_resized, tp_read>>

\* pick_tile: the tile picker reads the pixel under the pointer.
PickPixel ==
    /\ tp_read' = Some(read_pixel_bytes(tp_win_size, tp_mouse_pos))
    /\ TpDone("pick")
    /\ UNCHANGED <<tp_win_size, tp_resized, tp_mouse_pos>>

\* The window is created with the size of the configuration file.
TpInit ==
    /\ LoopInit /\ SmIdle /\ GlIdle
    /\ tp_win_size \in WinSize
    /\ tp_resized = tp_win_size
    /\ tp_mouse_pos = [x |-> 0, y |-> 0]
    /\ tp_read = None
    /\ tp_op = "new"

TpNext ==
    \/ \E w \in 1 .. MaxWinSize, h \in 1 .. MaxWinSize : SizeEvent(w, h)
    \/ \E x \in 0 .. MaxWinSize, y \in 0 .. MaxWinSize : CursorPosEvent(x, y)
    \/ PickPixel

TpSpec == TpInit /\ [][TpNext]_vars

\* ============================================================== verify!
\* The error codes gl::GetError can leave: none, two of the named ones
\* (GL_INVALID_ENUM, GL_OUT_OF_MEMORY) and one that the macro does not name.
GlErrorCodes == {0, 1280, 1285, 7}
GlNamedErrors == {1280, 1285}
GlResults == {"unit", "value"}

\* verify!(e): e is evaluated, then gl::GetError read; a non-zero code fails.
verify_named_only(result, error_code) ==
    IF error_code \in GlNamedErrors
    THEN [failed |-> TRUE, returned |-> None, message |-> "gl error"]
    ELSE [failed |-> FALSE, returned |-> Some(result), message |-> ""]

verify(result, error_code) ==
    IF error_code # 0
    THEN [failed |-> TRUE, returned |-> None,
          message |-> IF error_code \in GlNamedErrors THEN "gl error"
                      ELSE "Bad gl error code"]
    ELSE [failed |-> FALSE, returned |-> Some(result), message |-> ""]

GlVerified(call, result, error_code) ==
    LET r == verify(result, error_code)
    IN  /\ gl_calls' = gl_calls + 1
        /\ gl_last' = Some([call |-> call, code |-> error_code,
                            result |-> result, returned |-> r.returned,
                            message |-> r.message,
                            after_failure |-> gl_status # "running"])
        /\ UNCHANGED <<loop_vars, sm_vars, tp_vars>>

\* Vao::new, get_new_vbo_id: a GPU object is generated.
GlNew(error_code) ==
    /\ gl_status = "running"
    /\ gl_calls < MaxGlCalls /\ gl_objects < MaxGlObjects
    /\ GlVerified("gen", "unit", error_code)
    /\ IF verify("unit", error_code).failed
       THEN gl_status' = "failing" /\ UNCHANGED gl_objects
       ELSE gl_objects' = gl_objects + 1 /\ UNCHANGED gl_status

\* Any other wrapped call: bind, draw_array, clear_screen, ReadPixels, ...
GlCall(result, error_code) ==
    /\ gl_status = "running"
    /\ gl_calls < MaxGlCalls
    /\ GlVerified("call", result, error_code)
    /\ gl_status' = IF verify(result, error_code).failed THEN "failing"
                     ELSE gl_status
    /\ UNCHANGED gl_objects

\* Drop for Vao, Drop for Vbo, the value going out of scope.
GlDrop(error_code) ==
    /\ gl_status = "running"
    /\ gl_calls < MaxGlCalls /\ gl_objects > 0
    /\ GlVerified("delete", "unit", error_code)
    /\ gl_objects' = gl_objects - 1
    /\ gl_status' = IF verify("unit", error_code).failed THEN "failing"
                     ELSE gl_status

\* fail! unwinds: the values alive are dropped, each drop deleting its GPU
\* object under verify!; a failure during the unwinding ends the process.
GlUnwindDrop(error_code) ==
    /\ gl_status = "failing" /\ gl_objects > 0
    /\ GlVerified("delete", "unit", error_code)
    /\ gl_objects' = gl_objects - 1
    /\ gl_status' = IF verify("unit", error_code).failed THEN "ended"
                     ELSE gl_status

GlUnwindEnd ==
    /\ gl_status = "failing" /\ gl_objects = 0
    /\ gl_status' = "ended"
    /\ UNCHANGED <<gl_objects, gl_calls, gl_last, loop_vars, sm_vars, tp_vars>>

GlInit == LoopInit /\ SmIdle /\ TpIdle /\ GlIdle

GlNext ==
    \/ \E c \in GlErrorCodes : GlNew(c)
    \/ \E r \in GlResults, c \in GlErrorCodes : GlCall(r, c)
    \/ \E c \in GlErrorCodes : GlDrop(c)
    \/ \E c \in GlErrorCodes : GlUnwindDrop(c)
    \/ GlUnwindEnd

GlSpec == GlInit /\ [][GlNext]_vars

\* =============================================================== claims
Contains(seq, x) == \E k \in DOMAIN seq : seq[k] = x
Count(seq, x) == Cardinality({k \in DOMAIN seq : seq[k] = x})
Running == is_some(event_visualizer) /\ ~is_finished(unwrap(event_visualizer))
TicksForever == []<>(pc = "draw")
EventDone == life.order = <<"start", "end", "apply_event">> /\ is_none(event_visualizer)

CreateUnitDispatched(pos) ==
    /\ Len(core'.queue) = Len(core.queue) + 1
    /\ core'.queue[Len(core'.queue)].tag = "CreateUnit"
    /\ core'.queue[Len(core'.queue)].pos = pos

TileHoldsUnit(pos) ==
    \/ UnitsAt(CurrentState, pos) # {}
    \/ \E k \in DOMAIN core.queue :
          core.queue[k].tag = "CreateUnit" /\ core.queue[k].pos = pos
    \/ is_some(event) /\ unwrap(event).tag = "CreateUnit" /\ unwrap(event).pos = pos

\* C1: at most one visualizer is active, and logic() polls the simulation
\* (get_event) only in a step that finds no visualizer and no retained event;
\* a visualizer is started only through such a poll.
C1_PollsOnlyWhenIdle ==
    [][pc = "logic" =>
         /\ Contains(logic_calls', "get_event")
               <=> (is_none(event_visualizer) /\ is_none(event))
         /\ Contains(logic_calls', "start") => Contains(logic_calls', "get_event")
         /\ Len(core'.queue) < Len(core.queue) => is_none(event_visualizer)
         /\ is_some(event_visualizer') <=> is_some(event')]_vars

\* C1 witness: logic() ran without polling, an animation being in flight
\* while the simulation holds an undelivered event.
C1_Witness ==
    /\ logic_calls = <<"is_finished">>
    /\ is_some(event_visualizer)
    /\ Len(core.queue) > 0

\* C2: for the event dequeued last, end is called at most once while its
\* visualizer is kept, exactly once by the time the visualizer is gone, and
\* only in a logic step that found is_finished() true.
C2_EndOnceWhenFinished ==
    /\ Count(life.order, "end") <= 1
    /\ (is_some(event_visualizer) /\ ~failed) => Count(life.order, "end") = 0
    /\ (is_none(event_visualizer) /\ life.order # <<>>)
          => Count(life.order, "end") = 1
    /\ Contains(life.order, "end") => life.end_finished

\* C2 witness: an animation of several frames has been drawn and ended.
C2_Witness ==
    /\ is_none(event_visualizer)
    /\ Contains(life.order, "end")
    /\ life.draws >= FramesPerStep
    /\ life.draws > 1

\* C3: the logic step that calls end applies the retained event to the
\* current player's mirror right after it, once, and clears the event and
\* the visualizer; the calls made for an event are start, end, apply_event.
C3_AppliedOnceAfterEnd ==
    [][(pc = "logic" /\ ~failed') =>
         /\ life'.order \in {<<>>, <<"start">>, <<"start", "end", "apply_event">>}
         /\ Contains(logic_calls', "end") =>
               /\ SubSeq(logic_calls', 2, 3) = <<"end", "apply_event">>
               /\ life.order = <<"start">>
               /\ life'.order = <<"start", "end", "apply_event">>
               /\ game_state' = [game_state EXCEPT ![core.player_id] =
                                   apply_event(@, unwrap(event))]
               /\ is_none(event') /\ is_none(event_visualizer')
         /\ ~Contains(logic_calls', "end") => game_state' = game_state]_vars

\* C3 witness: an event has been ended and applied, and the mirror of the
\* current player holds a unit.
C3_Witness ==
    /\ life.order = <<"start", "end", "apply_event">>
    /\ is_none(event) /\ is_none(event_visualizer)
    /\ \E u \in UnitId : is_some(CurrentState[u])

\* C4: while tick() keeps being called, every undelivered event of the
\* simulation is eventually dequeued (observed: tracked falls back to 0 when
\* the observed event is dequeued and started), and every started visualizer
\* is eventually ended and its event applied.
C4_EveryEventIsApplied ==
    TicksForever =>
        /\ (tracked # 0) ~> (tracked = 0)
        /\ is_some(event_visualizer) ~> EventDone

\* C4 witness: an observed event waits in the simulation's queue while the
\* animation of an earlier one is still running.
C4_Witness == tracked = 1 /\ Running

\* C5: the reserved selection node is in the scene iff a unit is selected;
\* after create both hold, after deselect neither.
C5_MarkerIffSelected ==
    ~sm_failed =>
        /\ is_some(sm_scene[SELECTION_NODE_ID]) <=> is_some(sm_unit_id)
        /\ sm_op[1] = "create" => is_some(sm_unit_id)
        /\ sm_op[1] = "deselect" => is_none(sm_unit_id)

\* C5 witness: a marker was created and then moved.
C5_Witness ==
    /\ sm_op = <<"move">> /\ ~sm_failed
    /\ is_some(sm_scene[SELECTION_NODE_ID])

\* C6: create_selection_marker(state, scene, u) leaves the reserved node at
\* the lifted world position of u's map position, with rotation 0, the
\* selection mesh and no children, selects u, and changes no other node.
C6_CreateReplacesMarker ==
    [][(sm_op'[1] = "create" /\ ~sm_failed') =>
         /\ sm_unit_id' = Some(sm_op'[2])
         /\ sm_scene'[SELECTION_NODE_ID] =
               Some([pos |-> lift(map_pos_to_world_pos(unwrap(sm_state[sm_op'[2]]))),
                     rot |-> 0, mesh_id |-> Some("selection_mesh"),
                     children |-> <<>>])
         /\ \A n \in UnitId : sm_scene'[n] = sm_scene[n]
         /\ sm_state' = sm_state]_vars

\* C6 witness: unit 1 was selected on tile 1 while another unit has a node.
C6_Witness ==
    /\ sm_op = <<"create", 1>> /\ ~sm_failed
    /\ sm_state[1] = Some(1)
    /\ is_some(sm_scene[0])

\* C7: move_selection_marker changes nothing but the position of the
\* existing reserved node, which becomes the selected unit's lifted world
\* position; it inserts no node.
C7_MoveChangesOnlyPosition ==
    [][sm_op'[1] = "move" =>
         /\ sm_unit_id' = sm_unit_id
         /\ sm_state' = sm_state
         /\ \A n \in UnitId : sm_scene'[n] = sm_scene[n]
         /\ is_some(sm_scene'[SELECTION_NODE_ID]) <=> is_some(sm_scene[SELECTION_NODE_ID])
         /\ ~sm_failed' =>
               sm_scene'[SELECTION_NODE_ID] =
                 Some([unwrap(sm_scene[SELECTION_NODE_ID]) EXCEPT
                         !.pos = lift(map_pos_to_world_pos(
                                        unwrap(sm_state[unwrap(sm_unit_id)])))])
         /\ sm_failed' => sm_scene' = sm_scene]_vars

\* C7 witness: the marker was moved to the selected unit on tile 1.
C7_Witness ==
    /\ sm_op = <<"move">> /\ ~sm_failed
    /\ is_some(sm_unit_id)
    /\ sm_state[unwrap(sm_unit_id)] = Some(1)
    /\ unwrap(sm_scene[SELECTION_NODE_ID]).pos = lift(map_pos_to_world_pos(1))

\* C8: no CreateUnit command is dispatched for a tile that already holds a
\* unit: one standing there in the current player's mirror, or one that an
\* earlier CreateUnit command, whose event is still undelivered or animated,
\* has put there.
C8_NoCreateUnitOnOccupiedTile ==
    [][\A pos \in MapPos : CreateUnitDispatched(pos) => ~TileHoldsUnit(pos)]_vars

\* C9: while a visualizer is active, a step of handle_events dispatches no
\* command, keeps the selected unit and the pathfinders, and does not fail.
C9_InputsIgnoredWhileAnimating ==
    [][(pc = "handle_events" /\ pc' = "handle_events" /\ is_some(event_visualizer)) =>
         /\ core' = core
         /\ selected_unit_id' = selected_unit_id
         /\ pathfinders' = pathfinders
         /\ game_state' = game_state
         /\ event_visualizer' = event_visualizer
         /\ ~failed']_vars

\* C9 witness: a T, U or A key press was dropped during a running animation.
C9_Witness == pc = "handle_events" /\ ignored = "key" /\ Running

\* C10: a tick runs handle_events, logic, pick_tile, draw in this order, each
\* once; the draw of a tick whose logic started a visualizer is that
\* visualizer's first draw, and the draw of a tick whose logic called end
\* finds no visualizer.
C10_TickOrder ==
    [][/\ tick_steps' = SubSeq(<<"handle_events", "logic", "pick_tile", "draw">>,
                               1, Len(tick_steps'))
       /\ pc = "draw" =>
             /\ tick_steps = <<"handle_events", "logic", "pick_tile">>
             /\ Contains(logic_calls, "start") =>
                   is_some(event_visualizer) /\ life.draws = 0 /\ life'.draws = 1
             /\ Contains(logic_calls, "end") =>
                   (failed \/ (is_none(event_visualizer) /\ life' = LifeNew))]_vars

\* C10 witness: a tick is complete and its draw was the first draw of the
\* visualizer that is active.
C10_Witness ==
    /\ tick_steps = <<"handle_events", "logic", "pick_tile", "draw">>
    /\ is_some(event_visualizer)
    /\ life.order = <<"start">> /\ life.draws = 1

\* C11: the tile picker's window size is the size of the last resize, and a
\* pick reads the pixel at column pointer.x and row H - pointer.y, H being
\* the height of the last resize.
C11_PickUsesLatestHeight ==
    /\ tp_win_size = tp_resized
    /\ tp_op = "pick" =>
          tp_read = Some([x |-> tp_mouse_pos.x,
                          y |-> tp_resized.h - tp_mouse_pos.y])

\* C11 witness: a pick in a window of height 2 with the pointer at (1, 0).
C11_Witness ==
    /\ tp_op = "pick"
    /\ tp_resized.h = 2
    /\ tp_mouse_pos = [x |-> 1, y |-> 0]
    /\ tp_read = Some([x |-> 1, y |-> 2])

\* C15 (as stated): a verify! that finds a non-zero error code fails the
\* program and returns nothing, one that finds zero returns the call's result
\* unchanged, and no GPU call is issued after a verify! has failed.
C15_NoGpuCallAfterFailure ==
    is_some(gl_last) =>
        LET l == unwrap(gl_last)
        IN  /\ l.code # 0 => (gl_status # "running" /\ is_none(l.returned))
            /\ l.code = 0 => l.returned = Some(l.result)
            /\ ~l.after_failure

\* C15 (amended): as above, but the GPU calls issued after a failed verify!
\* are exactly the deletions made by the destructors of the Vao and Vbo
\* values alive, run while the failure unwinds; no other call is issued and
\* the failed call is not issued again.
C15_OnlyDestructorsCallAfterFailure ==
    is_some(gl_last) =>
        LET l == unwrap(gl_last)
        IN  /\ l.code # 0 => (gl_status # "running" /\ is_none(l.returned))
            /\ l.code = 0 => l.returned = Some(l.result)
            /\ l.after_failure => l.call = "delete"
            /\ gl_status = "ended" => (l.code # 0 \/ gl_objects = 0)

\* C15 witness: a destructor deleted a GPU object after a verify! failed.
C15_Witness ==
    /\ is_some(gl_last)
    /\ unwrap(gl_last).after_failure
    /\ unwrap(gl_last).call = "delete"
    /\ unwrap(gl_last).code = 0

\* C12: when the logic step ends the visualizer of a Move(unit, path) with a
\* non-empty path and applies the event, the unit's scene node is at the
\* world position of the path's last tile D and the mirror has the unit at D.
C12_MoveEndsAtDestination ==
    [][(/\ pc = "logic" /\ is_some(event) /\ is_none(event')
        /\ unwrap(event).tag = "Move" /\ unwrap(event).path # <<>>) =>
         LET e == unwrap(event)
             D == e.path[Len(e.path)]
             id == core.player_id
         IN  /\ life'.order = <<"start", "end", "apply_event">>
             /\ life'.draws >= 1
             /\ scenes'[id][e.id] = Some([x |-> D * HexSize, z |-> 0])
             /\ game_state'[id][e.id] = Some(D)]_vars

\* C12 witness: the only unit created so far is selected and stands on tile
\* 1 after an animation of several frames was ended in this tick: its Move.
C12_Witness ==
    /\ pc = "pick_tile" /\ ~failed
    /\ Contains(logic_calls, "end") /\ life.draws >= 2
    /\ core.next_unit_id = 1 /\ selected_unit_id = Some(0)
    /\ CurrentState[0] = Some(1)
    /\ scenes[core.player_id][0] = Some(map_pos_to_world_pos(1))

\* C13: right after start is_finished() is false unless the event is EndTurn;
\* after at most NumTiles * FramesPerStep draws it is true; once true it
\* stays true; a logic step that only asks is_finished() changes nothing of
\* the visualizer.
C13_FinishedAfterBoundedDraws ==
    [][/\ (pc = "logic" /\ Contains(logic_calls', "start")) =>
            (is_finished(unwrap(event_visualizer'))
               <=> unwrap(event').tag = "EndTurn")
       /\ (is_some(event_visualizer') /\ life'.draws >= NumTiles * FramesPerStep) =>
            is_finished(unwrap(event_visualizer'))
       /\ (is_some(event_visualizer) /\ is_some(event_visualizer')
            /\ is_finished(unwrap(event_visualizer))) =>
            is_finished(unwrap(event_visualizer'))
       /\ (pc = "logic" /\ logic_calls' = <<"is_finished">>) =>
            (event_visualizer' = event_visualizer /\ scenes' = scenes)]_vars

\* C13 witness: an animation has been drawn and is not finished yet.
C13_Witness ==
    /\ is_some(event_visualizer) /\ life.draws = 1
    /\ ~is_finished(unwrap(event_visualizer))
    /\ logic_calls = <<"is_finished">>

\* C14: the logic step that ends a visualizer fills the current player's
\* pathfinder iff a unit is selected, after apply_event and from the mirror
\* that already holds the applied event; with no unit selected, and in every
\* other logic step, the pathfinders are unchanged.
C14_FillAfterApply ==
    [][pc = "logic" =>
         IF Contains(logic_calls', "end") /\ ~failed'
         THEN LET id == core.player_id
              IN  /\ Contains(logic_calls', "fill_map") <=> is_some(selected_unit_id)
                  /\ is_none(selected_unit_id) => pathfinders' = pathfinders
                  /\ is_some(selected_unit_id) =>
                        /\ logic_calls' = <<"is_finished", "end", "apply_event",
                                             "fill_map">>
                        /\ is_some(game_state'[id][unwrap(selected_unit_id)])
                        /\ pathfinders' = [pathfinders EXCEPT ![id] =
                              fill_map(game_state'[id],
                                       unwrap(game_state'[id][unwrap(selected_unit_id)]))]
         ELSE pathfinders' = pathfinders]_vars

\* C14 witness: the selected unit stands on tile 1 and the pathfinder was
\* filled from there in the logic step that ended an animation.
C14_Witness ==
    /\ logic_calls = <<"is_finished", "end", "apply_event", "fill_map">>
    /\ ~failed /\ is_some(selected_unit_id)
    /\ CurrentState[unwrap(selected_unit_id)] = Some(1)
    /\ pathfinders[core.player_id].origin = Some(1)

\* C16: a left click with no visualizer active selects the unit on the
\* picked tile and fills the pathfinder for it, dispatching nothing; or, the
\* tile being empty and a unit selected, dispatches one Move(selected unit,
\* get_path(tile)) and keeps the selection; or changes nothing.
C16_ClickSelectsOrMoves ==
    [][(HandleMouseButtonEvent /\ is_none(event_visualizer)) =>
         LET id == core.player_id
             here == IF is_some(selected_tile_pos)
                     THEN UnitsAt(CurrentState, unwrap(selected_tile_pos)) ELSE {}
         IN  /\ game_state' = game_state /\ scenes' = scenes
             /\ IF here # {}
                THEN /\ core' = core
                     /\ \E u \in here :
                          /\ selected_unit_id' = Some(u)
                          /\ pathfinders' = [pathfinders EXCEPT ![id] =
                                [origin |-> CurrentState[u]]]
                ELSE IF is_some(selected_tile_pos) /\ is_some(selected_unit_id)
                THEN /\ core'.queue = Append(core.queue,
                            EventMove(unwrap(selected_unit_id),
                                      get_path(pathfinders[id],
                                               unwrap(selected_tile_pos))))
                     /\ selected_unit_id' = selected_unit_id
                     /\ pathfinders' = pathfinders
                ELSE /\ core' = core
                     /\ selected_unit_id' = selected_unit_id
                     /\ pathfinders' = pathfinders]_vars

\* C16 witness: a click on the empty tile 1 dispatched the Move of the
\* selected unit from tile 0.
C16_Witness ==
    /\ pc = "handle_events" /\ is_none(event_visualizer)
    /\ selected_unit_id = Some(0) /\ selected_tile_pos = Some(1)
    /\ core.queue = <<EventMove(0, <<0, 1>>)>>

\* C17: a logic step calls at most one of start and end; the step that ends
\* a visualizer does not poll the simulation, so the draw of that tick finds
\* no visualizer, and a visualizer is started only after such a draw.
C17_EndAndStartInDifferentTicks ==
    [][/\ pc = "logic" =>
            /\ ~(Contains(logic_calls', "start") /\ Contains(logic_calls', "end"))
            /\ Contains(logic_calls', "end") =>
                  (core' = core /\ ~Contains(logic_calls', "get_event"))
            /\ Contains(logic_calls', "start") => life = LifeNew
       /\ (pc = "draw" /\ Contains(logic_calls, "end") /\ ~failed) =>
            (is_none(event_visualizer') /\ life'.draws = 0)]_vars

\* C17 witness: a visualizer was ended in this tick, the draw step finds
\* none, and the simulation already holds the next event.
C17_Witness ==
    /\ pc = "draw" /\ ~failed
    /\ Contains(logic_calls, "end")
    /\ is_none(event_visualizer)
    /\ Len(core.queue) > 0

\* C18: the draw step calls the active visualizer's draw once; draw is
\* called in no other step, not before start (the count starts at 0) and not
\* after end; a visualizer that is ended has been drawn at least once.
C18_DrawnOncePerTick ==
    [][/\ (pc = "draw" /\ is_some(event_visualizer)) =>
            life'.draws = life.draws + 1
       /\ pc # "draw" => (life'.draws = life.draws \/ life'.draws = 0)
       /\ (pc = "logic" /\ Contains(logic_calls', "start")) => life'.draws = 0
       /\ Contains(life.order, "end") => life'.draws \in {life.draws, 0}
       /\ Contains(life'.order, "end") => life'.draws >= 1]_vars

\* C18 witness: a zero-duration visualizer was ended after its one draw.
C18_Witness ==
    /\ life.order = <<"start", "end", "apply_event">>
    /\ life.draws = 1 /\ is_none(event_visualizer)

\* C19: T with no visualizer active dispatches one EndTurn command and
\* clears the selected unit; A dispatches AttackUnit(0, u) for a unit u on
\* the picked tile, and nothing when the tile holds none or none is picked.
C19_EndTurnAndAttack ==
    [][/\ (HandleKeyEvent("T") /\ is_none(event_visualizer)) =>
            /\ core' = do_command(core, CommandEndTurn)
            /\ Len(core'.queue) = Len(core.queue) + 1
            /\ core'.queue[Len(core'.queue)].tag = "EndTurn"
            /\ selected_unit_id' = None
       /\ (HandleKeyEvent("A") /\ is_none(event_visualizer)) =>
            LET here == IF is_some(selected_tile_pos)
                        THEN UnitsAt(CurrentState, unwrap(selected_tile_pos))
                        ELSE {}
            IN  /\ selected_unit_id' = selected_unit_id
                /\ IF here = {} THEN core' = core
                   ELSE \E u \in here :
                          core'.queue = Append(core.queue, EventAttackUnit(0, u))]_vars

\* C19 witness: T was pressed after the Move of a selected unit was
\* dispatched, and no unit is selected any more.
C19_Witness ==
    /\ pc = "handle_events"
    /\ Len(core.queue) = 2
    /\ core.queue[1].tag = "Move" /\ core.queue[2].tag = "EndTurn"
    /\ selected_unit_id = None

\* C20: an event is dequeued only when no dequeued event is unapplied, it is
\* the oldest of the simulation's queue, it is kept until the step that
\* applies it, and the mirror changes only by that application.
C20_AppliedInDequeueOrder ==
    [][/\ (pc = "logic" /\ core' # core) =>
            /\ is_none(event) /\ life = LifeNew
            /\ event' = Some(Head(core.queue))
            /\ core'.queue = Tail(core.queue)
       /\ (is_some(event) /\ is_some(event')) => event' = event
       /\ (is_some(event) /\ is_none(event')) =>
            game_state' = [game_state EXCEPT ![core.player_id] =
                             apply_event(@, unwrap(event))]
       /\ game_state' # game_state => (is_some(event) /\ is_none(event'))]_vars

\* C20 witness: two CreateUnit events dispatched in one handle_events were
\* applied one after the other.
C20_Witness ==
    /\ life.order = <<"start", "end", "apply_event">>
    /\ is_none(event) /\ core.queue = <<>>
    /\ is_some(CurrentState[0]) /\ is_some(CurrentState[1])

\* C21: the mirror changes only in the logic step that ends a visualizer, by
\* apply_event on the current player's mirror; the scenes change only by the
\* start, draw and end of the active visualizer, on the current player's
\* scene; handle_events and pick_tile change neither.
C21_MirrorAndSceneWriters ==
    [][/\ game_state' # game_state =>
            /\ pc = "logic" /\ Contains(logic_calls', "apply_event")
            /\ is_some(event)
            /\ game_state' = [game_state EXCEPT ![core.player_id] =
                                apply_event(@, unwrap(event))]
       /\ scenes' # scenes =>
            \/ /\ pc = "logic" /\ Contains(logic_calls', "start")
               /\ scenes' = [scenes EXCEPT ![core'.player_id] =
                                vis_start(unwrap(event_visualizer'), @)]
            \/ /\ pc = "logic" /\ Contains(logic_calls', "end")
               /\ scenes' = [scenes EXCEPT ![core.player_id] =
                                vis_end(unwrap(event_visualizer), @)]
            \/ /\ pc = "draw" /\ is_some(event_visualizer)
               /\ scenes' = [scenes EXCEPT ![core.player_id] =
                                vis_draw(unwrap(event_visualizer), @).scene]
       /\ pc \in {"handle_events", "pick_tile"} =>
            (game_state' = game_state /\ scenes' = scenes)]_vars

\* C21 witness: the start of a CreateUnit animation has put the unit's node
\* into the scene while the mirror does not hold the unit yet.
C21_Witness ==
    /\ is_some(event_visualizer) /\ is_some(event)
    /\ unwrap(event).tag = "CreateUnit"
    /\ is_some(scenes[core.player_id][unwrap(event).id])
    /\ is_none(CurrentState[unwrap(event).id])

\* C22: while a visualizer is active the simulation (and so its current
\* player) does not change, and start, draw, end and apply_event touch the
\* scene and the mirror of that player only.
C22_OnePlayerPerVisualizer ==
    [][/\ is_some(event_visualizer) =>
            /\ core' = core
            /\ \A p \in PlayerId \ {core.player_id} :
                  scenes'[p] = scenes[p] /\ game_state'[p] = game_state[p]
       /\ (is_none(event_visualizer) /\ is_some(event_visualizer')) =>
            \A p \in PlayerId \ {core'.player_id} :
               scenes'[p] = scenes[p] /\ game_state'[p] = game_state[p]]_vars

\* C22 witness: an animation is running, and has been drawn, in the scene of
\* player 1.
C22_Witness ==
    /\ core.player_id = 1 /\ Running
    /\ life.draws >= 1
    /\ unwrap(event).tag = "CreateUnit"

\* C23: the selected unit exists in the current player's mirror, and the
\* program has not aborted.
C23_SelectedUnitExists ==
    /\ is_some(selected_unit_id) => is_some(CurrentState[unwrap(selected_unit_id)])
    /\ ~failed

\* C24: a command is dispatched (the simulation emits an event) only when no
\* event is pending in the simulation's queue and none is being animated.
C24_DispatchOnlyWhenUpToDate ==
    [][Len(core'.queue) > Len(core.queue) =>
         (core.queue = <<>> /\ is_none(event) /\ is_none(event_visualizer))]_vars

\* C25: with the pointer inside the window (0 <= y <= H-1), the row a pick
\* reads lies in the framebuffer's rows 0..H-1.
C25_ReadRowInsideFramebuffer ==
    (tp_op = "pick" /\ tp_mouse_pos.y <= tp_win_size.h - 1) =>
        unwrap(tp_read).y \in 0 .. (tp_win_size.h - 1)

====
